---- MODULE Spec2Model ----
(***************************************************************************)
(* A model of the go-battleye RCON client: NewClient / connect, the        *)
(* receiver goroutine, Exec / send, the keep-alive goroutine and Close,    *)
(* with the goroutines interleaved at their channel, lock and socket       *)
(* operations.                                                             *)
(*                                                                         *)
(* Time is kept in seconds and relative to the present: a timer is the     *)
(* time left until it fires, lastSend is the time since it was stamped,    *)
(* and Tick lets time pass until a pending timer fires.  Texts are         *)
(* sequences of tokens: the reply body to command number c is the text     *)
(* <<c,1>>, ..., <<c,MaxParts>>; command number 0 is the empty command.    *)
(***************************************************************************)
EXTENDS Integers, Sequences, FiniteSets, TLC

\* ------------------------------------------------------------- bounds
\* Exec calls made by application threads.
MaxCalls == 2
\* Exec calls made by the keep-alive goroutine.
MaxKeepAlives == 1
\* Exec calls made by the keep-alive goroutine of an idle client.
MaxIdleKeepAlives == 2
\* Server broadcasts read from the socket.
MaxBroadcasts == 3
\* Parts a multi-part reply is split into.
MaxParts == 2
\* Capacity given to the MessageBuffer option.
MsgBufOpt == 2
\* Bytes in a password or a command text given to the codec.
MaxText == 4
\* Bytes a datagram has changed on its way to the decoder.
MaxDamage == 2

\* ------------------------------------------------- program constants
defaultTimeout == 10
defaultKeepAlive == 30
defaultMessageBufferSize == 100
clientTimeout == 45
\* The counter is read through byte(ctr).
ByteMod == 256
\* The login results of the protocol.
loginFailed == 0
loginSuccess == 1
\* The payload types of the protocol, and the tag of a multi-part header.
loginType == 0
commandType == 1
serverMessageType == 2
multiPacketType == 0
\* The smallest packet the decoder takes.
minPacketSize == 9

\* ------------------------------------------------------------ inputs
\* The application goroutines that call Exec: goroutine k makes the k-th
\* call to begin, with command number k.  Threads that call Close.
Callers == 1..MaxCalls
Closers == {"u1", "u2"}
\* The keep-alive goroutine, whose command is the empty one, number 0.
KA == 0
\* c.sendLock held by no goroutine.
Unlocked == -1
\* The goroutines that run Exec: the callers and the keep-alive goroutine.
ExecProcs == Callers \cup {KA}
\* The threads that run Close: the closers and NewClient's own teardown.
CloseProcs == Closers \cup {"open"}

Timeout(d) == [kind |-> "Timeout", v |-> d]
KeepAlive(d) == [kind |-> "KeepAlive", v |-> d]
MessageBuffer(n) == [kind |-> "MessageBuffer", v |-> n]
NilOption == [kind |-> "nil", v |-> 0]

\* The option lists NewClient is called with: none, so that the defaults
\* stand, valid ones, and ones that make NewClient fail.
OptionLists ==
  { <<>>,
    <<Timeout(2 * defaultTimeout), MessageBuffer(MsgBufOpt)>>,
    <<MessageBuffer(0)>>,
    <<NilOption>> }

\* Errors the receiver can get from read(): a network error that is no
\* timeout, and a decode error of parseResponse.
ReadErrs == {"io", "ErrInvalidChecksum"}

\* time.Since(c.sinceSend) while sinceSend is the zero time.Time.
Never == -1

VARIABLES
  openPc,      \* NewClient: "new","dial","login","wait","close","returned"
  openRes,     \* what NewClient returned: "pending", "client" or an error
  openErr,     \* the error connect returned, "nil" when none
  openTimer,   \* seconds until connect's login timer fires
  pwdOk,       \* whether the password given is the server's
  loginSent,   \* whether the login packet was written
  timeout, keepAlive, msgBufSize,  \* Client fields set by the options
  conn,        \* c.conn: "nil", "open" or "closed"
  wg,          \* c.wg: the WaitGroup counter
  done,        \* c.done: whether its channel is closed
  msgs,        \* c.msgs: the buffered broadcast channel
  msgsClosed,  \* whether c.msgs is closed
  ctr,         \* c.ctr
  fragments,   \* c.fragments: sequence byte -> fragmentedResponse
  sendLock,    \* c.sendLock: Unlocked or the goroutine holding it
  sinceSend,   \* time.Since(c.sinceSend), in seconds, or Never
  rcvPc,       \* receiver: "off","loop","read","errs","login","cmds","exited"
  rcvVal,      \* the value the receiver is sending on a channel
  execPc,      \* Exec, per goroutine: "idle","lock","wait"
  execUntil,   \* seconds until `until`, the end of the call's 45 s window
  execTimer,   \* seconds until send's timer fires
  execTx,      \* command packets the call has written so far
  kaPc,        \* keepConnectionAlive: "off","select","exec","exited"
  closePc,     \* Close, per thread: "idle","Done","Wait","msgs","conn","returned"
  closeRes,    \* what Close returned: "none", "nil" or an error
  closeLate,   \* whether the call began after another Close call had returned
  sent,        \* command packets written to the socket so far
  acks,        \* sequence bytes of the acknowledgements written
  bcRead,      \* broadcasts read from the socket so far
  dropped,     \* broadcasts dropped because c.msgs was full
  nCalls,      \* Exec calls begun by application goroutines
  ret,         \* what the Exec call that returned in the last step returned
  nKeepAlives, \* Exec calls begun by the keep-alive goroutine
  nReplied,    \* Exec calls that returned a reply
  panicked,    \* "none", or the runtime panic that ended the process
  errAt,       \* the Exec calls begun when the receiver came to c.errs <- err
  pkt,         \* codec: the packet to encode
  raw,         \* codec: the datagram, as encoded or as it arrives
  parsed       \* codec: what parseResponse made of the datagram

vars == <<openPc, openRes, openErr, openTimer, pwdOk, loginSent,
          timeout, keepAlive, msgBufSize, conn, wg, done, msgs, msgsClosed,
          ctr, fragments, sendLock, sinceSend, rcvPc, rcvVal, execPc,
          execUntil, execTimer, execTx, kaPc, closePc,
          closeRes, closeLate, sent, acks, bcRead, dropped, nCalls,
          nKeepAlives, nReplied, ret, panicked, errAt, pkt, raw, parsed>>

\* The codec's work area, which no step of the client touches.
codecVars == <<pkt, raw, parsed>>
openVars == <<openPc, openRes, openErr, openTimer, pwdOk, loginSent, codecVars>>
optVars == <<timeout, keepAlive, msgBufSize>>
execVars == <<execPc, execUntil, execTimer, execTx>>
closeVars == <<closePc, closeRes, closeLate>>
rcvVars == <<rcvPc, rcvVal, errAt>>
histVars == <<sent, acks, bcRead, dropped, nCalls, nKeepAlives, nReplied>>

NoVal == <<>>
\* The receiver is not sending an error on c.errs.
NoAt == [calls |-> 0, kas |-> 0]
\* No Exec call returned in the last step.
NoRet == [proc |-> -1, err |-> "none", resp |-> <<>>, tx |-> 0, left |-> 0]
\* handleCommandResponse dropped the response in the last step.
Dropped == [NoRet EXCEPT !.err = "dropped"]
Running == panicked = "none"

\* ------------------------------------------------------------- texts
RECURSIVE Join(_)
\* strings.Join(parts, ""): the parts one after the other.
Join(parts) ==
  IF parts = <<>> THEN <<>> ELSE Head(parts) \o Join(Tail(parts))

\* The server's reply body to command c ("" has the empty reply).
Body(c) == IF c = 0 THEN <<>> ELSE [i \in 1..MaxParts |-> <<c, i>>]

\* The command response datagrams the server produces for command packet p:
\* the reply in one packet, or split into MaxParts parts.
SingleReply(p) ==
  [seq |-> p.seq, multi |-> FALSE, multiSize |-> 0, multiIndex |-> 0,
   msg |-> Body(p.cmd), cmd |-> p.cmd]

MultiReply(p, i) ==
  [seq |-> p.seq, multi |-> TRUE, multiSize |-> MaxParts, multiIndex |-> i,
   msg |-> << <<p.cmd, i + 1>> >>, cmd |-> p.cmd]

Replies(p) ==
  {SingleReply(p)} \cup
  (IF p.cmd = 0 THEN {} ELSE {MultiReply(p, i) : i \in 0..(MaxParts - 1)})

\* ------------------------------------------------------ the counter
\* Client.seq
seq == ctr % ByteMod

\* Client.incr
incr == ctr + 1

\* ------------------------------------------------ fragmentedResponse
\* parts[i] of the code is parts[i + 1] here.
newFragmentedResponse(size) ==
  [expected |-> 0..(size - 1), parts |-> [i \in 1..size |-> <<>>]]

\* Whether fm.parts[cr.multiIndex] is inside the slice.
addInRange(fm, cr) == cr.multiIndex < Len(fm.parts)

add(fm, cr) ==
  [expected |-> fm.expected \ {cr.multiIndex},
   parts |-> [fm.parts EXCEPT ![cr.multiIndex + 1] = cr.msg]]

\* An entry that counts as complete whatever is missing.
C16_AlwaysComplete(fm) == TRUE

completed(fm) == Cardinality(fm.expected) = 0

message(fm) == Join(fm.parts)

\* ------------------------------------------------------------ crc32
\* A 32-bit word is its four bytes, least significant first, as
\* binary.LittleEndian lays it out.
RECURSIVE Xor(_, _)
\* Bitwise exclusive or of two naturals.
Xor(a, b) ==
  IF a = 0 THEN b
  ELSE IF b = 0 THEN a
  ELSE ((a + b) % 2) + 2 * Xor(a \div 2, b \div 2)

XorWord(c, d) ==
  << Xor(c[1], d[1]), Xor(c[2], d[2]), Xor(c[3], d[3]), Xor(c[4], d[4]) >>

ShiftRight(c) ==
  << (c[1] \div 2) + 128 * (c[2] % 2), (c[2] \div 2) + 128 * (c[3] % 2),
     (c[3] \div 2) + 128 * (c[4] % 2), c[4] \div 2 >>

\* The reversed IEEE polynomial 0xedb88320.
IEEE == <<32, 131, 184, 237>>

RECURSIVE CrcBits(_, _)
\* n shift steps of the bitwise CRC.
CrcBits(c, n) ==
  IF n = 0 THEN c
  ELSE IF c[1] % 2 = 1 THEN CrcBits(XorWord(ShiftRight(c), IEEE), n - 1)
  ELSE CrcBits(ShiftRight(c), n - 1)

RECURSIVE CrcUpdate(_, _)
CrcUpdate(c, data) ==
  IF data = <<>> THEN c
  ELSE CrcUpdate(CrcBits(XorWord(c, <<Head(data), 0, 0, 0>>), 8), Tail(data))

\* crc32.ChecksumIEEE(data), as the four bytes PutUint32 writes.
ChecksumIEEE(data) ==
  XorWord(CrcUpdate(<<255, 255, 255, 255>>, data), <<255, 255, 255, 255>>)

\* ------------------------------------------------------------ packet
newLoginPacket(password) ==
  [payloadType |-> loginType, sequenceNumber |-> 0, message |-> password]

newCommandPacket(command, sequence) ==
  [payloadType |-> commandType, sequenceNumber |-> sequence,
   message |-> command]

\* An acknowledgement that carries the sequence byte 0 whatever it answers.
C18_AckZero(sequence) ==
  [payloadType |-> serverMessageType, sequenceNumber |-> 0, message |-> <<>>]

newServerMessageAcknowledgePacket(sequence) ==
  [payloadType |-> serverMessageType, sequenceNumber |-> sequence,
   message |-> <<>>]

\* A payload without the sequence byte of a command.
C12_NoSequence(p) ==
  CASE p.payloadType \in {loginType, commandType} ->
         [err |-> "nil", bytes |-> <<255, p.payloadType>> \o p.message]
    [] p.payloadType = serverMessageType ->
         [err |-> "nil", bytes |-> <<255, p.payloadType, p.sequenceNumber>>]
    [] OTHER -> [err |-> "ErrUnknownPacketType", bytes |-> <<>>]

\* packet.payload: the bytes, or the error.
payload(p) ==
  CASE p.payloadType = loginType ->
         [err |-> "nil", bytes |-> <<255, p.payloadType>> \o p.message]
    [] p.payloadType = commandType ->
         [err |-> "nil",
          bytes |-> <<255, p.payloadType>> \o (<<p.sequenceNumber>> \o p.message)]
    [] p.payloadType = serverMessageType ->
         [err |-> "nil", bytes |-> <<255, p.payloadType, p.sequenceNumber>>]
    [] OTHER -> [err |-> "ErrUnknownPacketType", bytes |-> <<>>]

\* packet.header
header(pl) == <<66, 69>> \o ChecksumIEEE(pl)

\* packet.bytes
bytes(p) ==
  LET pl == payload(p) IN
    IF pl.err # "nil" THEN [err |-> pl.err, bytes |-> <<>>]
    ELSE [err |-> "nil", bytes |-> header(pl.bytes) \o pl.bytes]

\* ------------------------------------------------------------ parser
\* b[from:], with from counted from 0 as in the code.
From(b, from) == SubSeq(b, from + 1, Len(b))

\* What parseResponse returns: an error and no value, or one of the three
\* kinds of response.  A run-time panic inside the parser is the error
\* "panic".
Failed(e) ==
  [err |-> e, kind |-> "none", ok |-> FALSE, seq |-> 0, msg |-> <<>>,
   multi |-> FALSE, multiSize |-> 0, multiIndex |-> 0]

Parsed(kind, sq, m) ==
  [Failed("nil") EXCEPT !.kind = kind, !.seq = sq, !.msg = m]

\* A parser that takes every login answer for a success.
C8_AnyLogin(b) == TRUE

\* loginResponse on the result byte of a login payload.  (Any other byte is
\* a decode error, which the receiver gets from read().)
loginResponse(b) == b = loginSuccess

\* loginResponse on raw[8:].
parseLogin(r) ==
  IF r[1] \in {loginFailed, loginSuccess}
    THEN [Parsed("login", 0, <<>>) EXCEPT !.ok = loginResponse(r[1])]
    ELSE Failed("ErrInvalidLoginResponse")

\* newCommandResponse on raw[8:]: raw[2] and raw[3] are read without a look
\* at the length.
newCommandResponse(r) ==
  IF Len(From(r, 1)) = 0 THEN Parsed("command", r[1], <<>>)
  ELSE IF r[2] = multiPacketType
    THEN IF Len(r) < 4 THEN Failed("panic")
         ELSE [Parsed("command", r[1], From(r, 4)) EXCEPT
                 !.multi = TRUE, !.multiSize = r[3], !.multiIndex = r[4]]
  ELSE Parsed("command", r[1], From(r, 1))

\* newServerMessage on raw[8:].
newServerMessage(r) == Parsed("serverMessage", r[1], From(r, 1))

\* A parser that looks at the checksum before the header bytes.
C13_ChecksumFirst(b) ==
  IF Len(b) < minPacketSize THEN Failed("ErrInvalidPacketSize")
  ELSE IF ChecksumIEEE(From(b, 6)) # SubSeq(b, 3, 6)
    THEN Failed("ErrInvalidChecksum")
  ELSE IF SubSeq(b, 1, 2) # <<66, 69>> THEN Failed("ErrInvalidHeader")
  ELSE IF b[7] # 255 THEN Failed("ErrInvalidEndOfHeader")
  ELSE CASE b[8] = loginType -> parseLogin(From(b, 8))
         [] b[8] = commandType -> newCommandResponse(From(b, 8))
         [] b[8] = serverMessageType -> newServerMessage(From(b, 8))
         [] OTHER -> Failed("ErrUnknownPacketType")

\* parseResponse
parseResponse(b) ==
  IF Len(b) < minPacketSize THEN Failed("ErrInvalidPacketSize")
  ELSE IF SubSeq(b, 1, 2) # <<66, 69>> THEN Failed("ErrInvalidHeader")
  ELSE IF b[7] # 255 THEN Failed("ErrInvalidEndOfHeader")
  ELSE IF ChecksumIEEE(From(b, 6)) # SubSeq(b, 3, 6)
    THEN Failed("ErrInvalidChecksum")
  ELSE CASE b[8] = loginType -> parseLogin(From(b, 8))
         [] b[8] = commandType -> newCommandResponse(From(b, 8))
         [] b[8] = serverMessageType -> newServerMessage(From(b, 8))
         [] OTHER -> Failed("ErrUnknownPacketType")


\* -------------------------------------------------------------- done
\* A done signal that is never seen.
C6_NeverDone == FALSE

\* done.IsDone
IsDone == done

\* A Done that does not see that the channel is closed.
C29_BlindDone == FALSE

\* The receive case of the select in done.Done: the channel is closed.
DoneSeesClosed == done

\* ----------------------------------------------------------- options
\* A size check that lets every size pass.
C14_AnySize(size) == FALSE

\* MessageBuffer's check of its size.
InvalidSize(size) == size < 1

RECURSIVE ApplyOptions(_, _)
\* NewClient's loop over the options: the client fields and the error.
ApplyOptions(opts, c) ==
  IF opts = <<>> THEN c
  ELSE LET opt == Head(opts) IN
    IF opt.kind = "nil" THEN [c EXCEPT !.err = "ErrNilOption"]
    ELSE IF opt.kind = "MessageBuffer" /\ InvalidSize(opt.v)
      THEN [c EXCEPT !.err = "ErrInvalidMessageBufferSize"]
    ELSE ApplyOptions(Tail(opts),
           CASE opt.kind = "Timeout" -> [c EXCEPT !.timeout = opt.v]
             [] opt.kind = "KeepAlive" -> [c EXCEPT !.keepAlive = opt.v]
             [] opt.kind = "MessageBuffer" -> [c EXCEPT !.msgBufSize = opt.v])

Defaults ==
  [timeout |-> defaultTimeout, keepAlive |-> defaultKeepAlive,
   msgBufSize |-> defaultMessageBufferSize, err |-> "nil"]

\* -------------------------------------------------------------- Init
\* The codec at rest: no packet, no datagram, nothing parsed.
NoPacket == [payloadType |-> -1, sequenceNumber |-> 0, message |-> <<>>]
NoRaw == [err |-> "none", bytes |-> <<>>, hits |-> 0]
NoResult == Failed("none")

\* The client before NewClient is called.
InitClient ==
  /\ openPc = "new" /\ openRes = "pending" /\ openErr = "nil"
  /\ openTimer = 0 /\ pwdOk \in BOOLEAN /\ loginSent = FALSE
  /\ timeout = defaultTimeout /\ keepAlive = defaultKeepAlive
  /\ msgBufSize = defaultMessageBufferSize
  /\ conn = "nil" /\ wg = 0 /\ done = FALSE
  /\ msgs = <<>> /\ msgsClosed = FALSE
  /\ ctr = 0 /\ fragments = [s \in {} |-> NoVal]
  /\ sendLock = Unlocked /\ sinceSend = Never
  /\ rcvPc = "off" /\ rcvVal = NoVal
  /\ execPc = [p \in ExecProcs |-> "idle"]
  /\ execUntil = [p \in ExecProcs |-> 0]
  /\ execTimer = [p \in ExecProcs |-> 0]
  /\ execTx = [p \in ExecProcs |-> 0]
  /\ kaPc = "off"
  /\ closePc = [t \in CloseProcs |-> "idle"]
  /\ closeRes = [t \in CloseProcs |-> "none"]
  /\ closeLate = [t \in CloseProcs |-> FALSE]
  /\ sent = {} /\ acks = <<>> /\ bcRead = 0 /\ dropped = 0
  /\ nCalls = 0 /\ nKeepAlives = 0 /\ nReplied = 0 /\ ret = NoRet
  /\ panicked = "none"
  /\ errAt = NoAt

Init == InitClient /\ pkt = NoPacket /\ raw = NoRaw /\ parsed = NoResult

\* --------------------------------------------------------- NewClient
\* NewClient up to the call of connect: the options are applied in order and
\* the first error is returned; otherwise the channels are made.
NewClient(opts) ==
  /\ Running /\ ret' = NoRet /\ openPc = "new"
  /\ LET c == ApplyOptions(opts, Defaults) IN
       IF c.err # "nil"
         THEN /\ openRes' = c.err /\ openPc' = "returned"
              /\ UNCHANGED optVars
         ELSE /\ timeout' = c.timeout /\ keepAlive' = c.keepAlive
              /\ msgBufSize' = c.msgBufSize
              /\ openPc' = "dial" /\ UNCHANGED openRes
  /\ UNCHANGED <<openErr, openTimer, pwdOk, codecVars, loginSent, conn, wg, done,
                 msgs, msgsClosed, ctr, fragments, sendLock, sinceSend,
                 rcvVars, execVars, kaPc, closeVars, histVars, panicked>>

\* connect: net.Dial, then the receiver goroutine is started.
connectDial(ok) ==
  /\ Running /\ ret' = NoRet /\ openPc = "dial"
  /\ IF ok
       THEN /\ conn' = "open" /\ wg' = wg + 1 /\ rcvPc' = "loop"
            /\ openPc' = "login" /\ UNCHANGED openErr
       ELSE /\ openErr' = "dial" /\ openPc' = "close"
            /\ UNCHANGED <<conn, wg, rcvPc>>
  /\ UNCHANGED <<openRes, openTimer, pwdOk, codecVars, loginSent, optVars, done,
                 msgs, msgsClosed, ctr, fragments, sendLock, sinceSend,
                 rcvVal, errAt, execVars, kaPc, closeVars, histVars, panicked>>

\* connect: the login packet is written and the login timer started.
connectLogin(ok) ==
  /\ Running /\ ret' = NoRet /\ openPc = "login"
  /\ IF ok /\ conn = "open"
       THEN /\ loginSent' = TRUE /\ openTimer' = timeout
            /\ openPc' = "wait" /\ UNCHANGED openErr
       ELSE /\ openErr' = "io" /\ openPc' = "close"
            /\ UNCHANGED <<loginSent, openTimer>>
  /\ UNCHANGED <<openRes, pwdOk, codecVars, optVars, conn, wg, done, msgs,
                 msgsClosed, ctr, fragments, sendLock, sinceSend, rcvVars,
                 execVars, kaPc, closeVars, histVars, panicked>>

\* connect's select: the timer fired.
connectTimeout ==
  /\ Running /\ ret' = NoRet /\ openPc = "wait" /\ openTimer = 0
  /\ openErr' = "ErrTimeout" /\ openPc' = "close"
  /\ UNCHANGED <<openRes, openTimer, pwdOk, codecVars, loginSent, optVars, conn,
                 wg, done, msgs, msgsClosed, ctr, fragments, sendLock,
                 sinceSend, rcvVars, execVars, kaPc, closeVars, histVars,
                 panicked>>

\* connect's select: an error is received from c.errs.
connectErr ==
  /\ Running /\ ret' = NoRet /\ openPc = "wait" /\ rcvPc = "errs"
  /\ openErr' = rcvVal /\ openPc' = "close"
  /\ rcvPc' = "loop" /\ rcvVal' = NoVal /\ errAt' = NoAt /\ openTimer' = 0
  /\ UNCHANGED <<openRes, pwdOk, codecVars, loginSent, optVars, conn,
                 wg, done, msgs, msgsClosed, ctr, fragments, sendLock,
                 sinceSend, execVars, kaPc, closeVars, histVars, panicked>>

\* connect's select: the login outcome is received from c.login; on success
\* the keep-alive goroutine is started and NewClient returns the client.
connectLoginResult ==
  /\ Running /\ ret' = NoRet /\ openPc = "wait" /\ rcvPc = "login"
  /\ rcvPc' = "loop" /\ rcvVal' = NoVal /\ errAt' = NoAt /\ openTimer' = 0
  /\ IF rcvVal
       THEN /\ wg' = wg + 1 /\ kaPc' = "select"
            /\ openRes' = "client" /\ openPc' = "returned"
            /\ UNCHANGED openErr
       ELSE /\ openErr' = "ErrLoginFailed" /\ openPc' = "close"
            /\ UNCHANGED <<wg, kaPc, openRes>>
  /\ UNCHANGED <<pwdOk, codecVars, loginSent, optVars, conn, done, msgs,
                 msgsClosed, ctr, fragments, sendLock, sinceSend, execVars,
                 closeVars, histVars, panicked>>

\* NewClient after a failed connect: c.Close() has returned, the error of
\* connect is returned and no client.
NewClientFail ==
  /\ Running /\ ret' = NoRet /\ openPc = "close" /\ closePc["open"] = "returned"
  /\ openRes' = openErr /\ openPc' = "returned"
  /\ UNCHANGED <<openErr, openTimer, pwdOk, codecVars, loginSent, optVars, conn,
                 wg, done, msgs, msgsClosed, ctr, fragments, sendLock,
                 sinceSend, rcvVars, execVars, kaPc, closeVars, histVars,
                 panicked>>

\* ------------------------------------------------------------- Close
\* Whether thread t may begin a Close call: the teardown inside NewClient, or
\* an application thread holding the client.
MayClose(t) ==
  IF t = "open" THEN openPc = "close" ELSE openRes = "client"

\* Close up to and including the IsDone check.
CloseCall(t) ==
  /\ Running /\ ret' = NoRet /\ closePc[t] = "idle" /\ MayClose(t)
  /\ closeLate' = [closeLate EXCEPT
                     ![t] = \E u \in CloseProcs : closePc[u] = "returned"]
  /\ IF IsDone
       THEN /\ closePc' = [closePc EXCEPT ![t] = "returned"]
            /\ closeRes' = [closeRes EXCEPT ![t] = "nil"]
       ELSE /\ closePc' = [closePc EXCEPT ![t] = "Done"]
            /\ UNCHANGED closeRes
  /\ UNCHANGED <<openVars, optVars, conn, wg, done, msgs, msgsClosed,
                 ctr, fragments, sendLock, sinceSend, rcvVars, execVars,
                 kaPc, histVars, panicked>>

\* done.Done, under its mutex: the channel is closed unless the select finds
\* it closed already; closing a closed channel panics.
CloseDone(t) ==
  /\ Running /\ ret' = NoRet /\ closePc[t] = "Done"
  /\ IF DoneSeesClosed
       THEN /\ closePc' = [closePc EXCEPT ![t] = "Wait"]
            /\ UNCHANGED <<done, panicked>>
       ELSE IF done
         THEN /\ panicked' = "close of closed channel d.ch"
              /\ UNCHANGED <<done, closePc>>
         ELSE /\ done' = TRUE
              /\ closePc' = [closePc EXCEPT ![t] = "Wait"]
              /\ UNCHANGED panicked
  /\ UNCHANGED <<openVars, optVars, conn, wg, msgs, msgsClosed, ctr,
                 fragments, sendLock, sinceSend, rcvVars, execVars, kaPc,
                 closeRes, closeLate, histVars>>

\* A Wait that returns at once.
C27_NoWait == TRUE

\* c.wg.Wait() returns once the counter is zero.
WaitReturns == wg = 0

CloseWait(t) ==
  /\ Running /\ ret' = NoRet /\ closePc[t] = "Wait" /\ WaitReturns
  /\ closePc' = [closePc EXCEPT ![t] = "msgs"]
  /\ UNCHANGED <<openVars, optVars, conn, wg, done, msgs, msgsClosed,
                 ctr, fragments, sendLock, sinceSend, rcvVars, execVars,
                 kaPc, closeRes, closeLate, histVars, panicked>>

\* close(c.msgs): closing a closed channel panics.
CloseMsgs(t) ==
  /\ Running /\ ret' = NoRet /\ closePc[t] = "msgs"
  /\ IF msgsClosed
       THEN /\ panicked' = "close of closed channel"
            /\ UNCHANGED <<msgsClosed, closePc>>
       ELSE /\ msgsClosed' = TRUE
            /\ closePc' = [closePc EXCEPT ![t] = "conn"]
            /\ UNCHANGED panicked
  /\ UNCHANGED <<openVars, optVars, conn, wg, done, msgs, ctr,
                 fragments, sendLock, sinceSend, rcvVars, execVars, kaPc,
                 closeRes, closeLate, histVars>>

\* return c.conn.Close(): a nil c.conn panics, a closed one gives an error.
CloseConn(t) ==
  /\ Running /\ ret' = NoRet /\ closePc[t] = "conn"
  /\ CASE conn = "nil" ->
            /\ panicked' = "nil pointer dereference"
            /\ UNCHANGED <<conn, closePc, closeRes>>
       [] conn = "closed" ->
            /\ closePc' = [closePc EXCEPT ![t] = "returned"]
            /\ closeRes' = [closeRes EXCEPT ![t] = "closed"]
            /\ UNCHANGED <<conn, panicked>>
       [] conn = "open" ->
            /\ conn' = "closed"
            /\ closePc' = [closePc EXCEPT ![t] = "returned"]
            /\ closeRes' = [closeRes EXCEPT ![t] = "nil"]
            /\ UNCHANGED panicked
  /\ UNCHANGED <<openVars, optVars, wg, done, msgs, msgsClosed, ctr,
                 fragments, sendLock, sinceSend, rcvVars, execVars, kaPc,
                 closeLate, histVars>>


\* -------------------------------------------------------------- Exec
\* Application goroutine p calls Exec with its command and comes to
\* c.sendLock.Lock().
ExecCall(p) ==
  /\ Running /\ ret' = NoRet /\ p = nCalls + 1 /\ p \in Callers /\ openRes = "client"
  /\ execPc[p] = "idle"
  /\ nCalls' = nCalls + 1
  /\ execPc' = [execPc EXCEPT ![p] = "lock"]
  /\ UNCHANGED <<openVars, optVars, conn, wg, done, msgs, msgsClosed,
                 ctr, fragments, sendLock, sinceSend, rcvVars, execUntil,
                 execTimer, execTx, kaPc, closeVars, sent, acks, bcRead,
                 dropped, nKeepAlives, nReplied, panicked>>

\* Exec returns (err, resp): the deferred Unlock runs, and the keep-alive
\* goroutine goes back to its select.
ExecReturn(p, err, resp) ==
  /\ ret' = [proc |-> p, err |-> err, resp |-> resp, tx |-> execTx[p],
             left |-> execUntil[p]]
  /\ execPc' = [execPc EXCEPT ![p] = "idle"]
  /\ execUntil' = [execUntil EXCEPT ![p] = 0]
  /\ execTimer' = [execTimer EXCEPT ![p] = 0]
  /\ execTx' = [execTx EXCEPT ![p] = 0]
  /\ sendLock' = Unlocked
  /\ kaPc' = IF p = KA THEN "select" ELSE kaPc

\* send up to its select: the command packet is written with the current
\* sequence byte; a write error is returned by Exec, else lastSend is
\* stamped and the timer started.
send(p, ok, left) ==
  IF ok /\ conn = "open"
    THEN /\ sent' = sent \cup {[seq |-> seq, cmd |-> p]}
         /\ sinceSend' = 0
         /\ execTimer' = [execTimer EXCEPT ![p] = timeout]
         /\ execUntil' = [execUntil EXCEPT ![p] = left]
         /\ execTx' = [execTx EXCEPT ![p] = @ + 1]
         /\ execPc' = [execPc EXCEPT ![p] = "wait"]
         /\ sendLock' = p
         /\ ret' = NoRet
         /\ UNCHANGED kaPc
    ELSE /\ ExecReturn(p, "io", <<>>)
         /\ UNCHANGED <<sent, sinceSend>>

\* A lock that excludes nobody.
C4_NoLock == TRUE

\* c.sendLock.Lock() returns only while no goroutine holds the lock.
sendLockFree == sendLock = Unlocked

\* Exec from c.sendLock.Lock() to the select of the first send: until is
\* set clientTimeout ahead, so the loop is entered.
ExecLock(p, ok) ==
  /\ Running /\ execPc[p] = "lock" /\ sendLockFree
  /\ send(p, ok, clientTimeout)
  /\ UNCHANGED <<openVars, optVars, conn, wg, done, msgs, msgsClosed,
                 ctr, fragments, rcvVars, closeVars, acks, bcRead, dropped,
                 nCalls, nKeepAlives, nReplied, panicked>>

\* A window that is closed from the start.
C9_NoWindow(p) == FALSE

\* The loop condition time.Now().Before(until).
InWindow(p) == execUntil[p] > 0

\* send's select: the timer fired, send returns ErrTimeout, and the loop
\* goes round because the window is open: the command is sent again.
ExecRetry(p, ok) ==
  /\ Running /\ execPc[p] = "wait" /\ execTimer[p] = 0 /\ InWindow(p)
  /\ send(p, ok, execUntil[p])
  /\ UNCHANGED <<openVars, optVars, conn, wg, done, msgs, msgsClosed,
                 ctr, fragments, rcvVars, closeVars, acks, bcRead, dropped,
                 nCalls, nKeepAlives, nReplied, panicked>>

\* send's select: the timer fired, send returns ErrTimeout, and the loop
\* ends because the window has elapsed: Exec returns ErrTimeout.
ExecGiveUp(p) ==
  /\ Running /\ execPc[p] = "wait" /\ execTimer[p] = 0 /\ ~InWindow(p)
  /\ ExecReturn(p, "ErrTimeout", <<>>)
  /\ UNCHANGED <<openVars, optVars, conn, wg, done, msgs, msgsClosed,
                 ctr, fragments, sinceSend, rcvVars, closeVars, histVars,
                 panicked>>

\* send's select: an error is received from c.errs and returned by Exec.
ExecRecvErr(p) ==
  /\ Running /\ execPc[p] = "wait" /\ rcvPc = "errs"
  /\ ExecReturn(p, rcvVal, <<>>)
  /\ rcvPc' = "loop" /\ rcvVal' = NoVal /\ errAt' = NoAt
  /\ UNCHANGED <<openVars, optVars, conn, wg, done, msgs, msgsClosed,
                 ctr, fragments, sinceSend, closeVars, histVars, panicked>>

\* send's select: a reply is received from c.cmds and returned by Exec.
ExecRecvCmd(p) ==
  /\ Running /\ execPc[p] = "wait" /\ rcvPc = "cmds"
  /\ ExecReturn(p, "nil", rcvVal)
  /\ rcvPc' = "loop" /\ rcvVal' = NoVal /\ errAt' = NoAt
  /\ nReplied' = nReplied + 1
  /\ UNCHANGED <<openVars, optVars, conn, wg, done, msgs, msgsClosed,
                 ctr, fragments, sinceSend, closeVars, sent, acks, bcRead,
                 dropped, nCalls, nKeepAlives, panicked>>

\* ------------------------------------------------ keepConnectionAlive
\* A keep-alive that is due at every tick.
C11_AlwaysDue == TRUE

\* do := time.Since(c.lastSend) > c.keepAlive
KeepAliveDue == sinceSend = Never \/ sinceSend > keepAlive

\* The ticker has ticked and a keep-alive is due: Exec("") is called.  (A
\* tick with none due changes nothing.)  The loop of the code has no limit;
\* n caps the counter nKeepAlives, and with it ctr and sent.
keepConnectionAlive(n) ==
  /\ Running /\ ret' = NoRet /\ kaPc = "select" /\ KeepAliveDue
  /\ nKeepAlives < n
  /\ nKeepAlives' = nKeepAlives + 1
  /\ kaPc' = "exec"
  /\ execPc' = [execPc EXCEPT ![KA] = "lock"]
  /\ UNCHANGED <<openVars, optVars, conn, wg, done, msgs, msgsClosed,
                 ctr, fragments, sendLock, sinceSend, rcvVars, execUntil,
                 execTimer, execTx, closeVars, sent, acks, bcRead,
                 dropped, nCalls, nReplied, panicked>>

KeepAliveTick == keepConnectionAlive(MaxKeepAlives)

\* The done channel is closed: the ticker is stopped and the goroutine ends.
KeepAliveExit ==
  /\ Running /\ ret' = NoRet /\ kaPc = "select" /\ done
  /\ kaPc' = "exited" /\ wg' = wg - 1
  /\ UNCHANGED <<openVars, optVars, conn, done, msgs, msgsClosed, ctr,
                 fragments, sendLock, sinceSend, rcvVars, execVars,
                 closeVars, histVars, panicked>>

\* ---------------------------------------------------------- receiver
\* The top of the loop: return when done is closed, else go and read.
ReceiverLoop ==
  /\ Running /\ ret' = NoRet /\ rcvPc = "loop"
  /\ IF done
       THEN rcvPc' = "exited" /\ wg' = wg - 1
       ELSE rcvPc' = "read" /\ UNCHANGED wg
  /\ UNCHANGED <<openVars, optVars, conn, done, msgs, msgsClosed, ctr,
                 fragments, sendLock, sinceSend, rcvVal, errAt, execVars, kaPc,
                 closeVars, histVars, panicked>>

\* read() ended with a timeout of the socket deadline: continue.
ReceiverTimeout ==
  /\ Running /\ ret' = NoRet /\ rcvPc = "read"
  /\ rcvPc' = "loop"
  /\ UNCHANGED <<openVars, optVars, conn, wg, done, msgs, msgsClosed,
                 ctr, fragments, sendLock, sinceSend, rcvVal, errAt, execVars, kaPc,
                 closeVars, histVars, panicked>>

\* read() ended with error e: c.errs <- err.
ReceiverError(e) ==
  /\ Running /\ ret' = NoRet /\ rcvPc = "read"
  /\ rcvPc' = "errs" /\ rcvVal' = e
  /\ errAt' = [calls |-> nCalls, kas |-> nKeepAlives]
  /\ UNCHANGED <<openVars, optVars, conn, wg, done, msgs, msgsClosed,
                 ctr, fragments, sendLock, sinceSend, execVars, kaPc,
                 closeVars, histVars, panicked>>

\* The result byte the server answers a login packet with.
LoginByte == IF pwdOk THEN loginSuccess ELSE loginFailed

\* read() gave the server's answer to the login packet: c.login <- r.
ReceiverLogin ==
  /\ Running /\ ret' = NoRet /\ rcvPc = "read" /\ loginSent
  /\ rcvPc' = "login" /\ rcvVal' = loginResponse(LoginByte)
  /\ UNCHANGED <<openVars, errAt, optVars, conn, wg, done, msgs, msgsClosed,
                 ctr, fragments, sendLock, sinceSend, execVars, kaPc,
                 closeVars, histVars, panicked>>

\* The fragmentedResponse r is added to: the entry of its sequence byte, or a
\* new one.
EntryFor(r) ==
  IF r.seq \in DOMAIN fragments
    THEN fragments[r.seq]
    ELSE newFragmentedResponse(r.multiSize)

\* A receiver that takes no command response for an old or unsolicited one.
C15_NeverStale(r) == FALSE

\* The response is an old or an unsolicited one: its sequence byte is not
\* the one the counter gives.
Stale(r) == r.seq # seq

\* handleCommandResponse
handleCommandResponse(r) ==
  IF Stale(r)
    THEN /\ rcvPc' = "loop"
         /\ UNCHANGED <<ctr, fragments, rcvVal, errAt, panicked>>
  ELSE IF ~r.multi
    THEN /\ ctr' = incr
         /\ rcvPc' = "cmds" /\ rcvVal' = r.msg
         /\ UNCHANGED <<fragments, panicked, errAt>>
  ELSE IF ~addInRange(EntryFor(r), r)
    THEN /\ panicked' = "index out of range"
         /\ UNCHANGED <<ctr, fragments, rcvPc, rcvVal, errAt>>
  ELSE LET fr == add(EntryFor(r), r) IN
         /\ fragments' = (r.seq :> fr) @@ fragments
         /\ UNCHANGED <<panicked, errAt>>
         /\ IF completed(fr)
              THEN /\ ctr' = incr
                   /\ rcvPc' = "cmds" /\ rcvVal' = message(fr)
              ELSE /\ rcvPc' = "loop"
                   /\ UNCHANGED <<ctr, rcvVal>>

\* The command responses that can be on the wire: those the server made for
\* a command packet written so far, each any number of times, at any time.
OnWire == UNION {Replies(p) : p \in sent}

\* read() gave a command response.
ReceiverCommand(r) ==
  /\ Running /\ rcvPc = "read" /\ r \in OnWire
  /\ ret' = IF Stale(r) THEN Dropped ELSE NoRet
  /\ handleCommandResponse(r)
  /\ UNCHANGED <<openVars, optVars, conn, wg, done, msgs, msgsClosed,
                 sendLock, sinceSend, execVars, kaPc, closeVars, histVars>>

\* The shapes a fragment can come in that do not fit the reply it answers:
\* a part count of 0, and a part count and index one beyond those of the
\* other fragments.
OddShapes == {<<0, 0>>, <<MaxParts + 1, MaxParts>>}

OddReplies(p) ==
  {[seq |-> p.seq, multi |-> TRUE, multiSize |-> sh[1], multiIndex |-> sh[2],
    msg |-> << <<p.cmd, sh[2] + 1>> >>, cmd |-> p.cmd] : sh \in OddShapes}

OddOnWire ==
  UNION {IF p.cmd = 0 THEN {} ELSE OddReplies(p) : p \in sent}

\* read() gave a fragment of such a shape.
ReceiverOdd(r) ==
  /\ Running /\ rcvPc = "read" /\ r \in OddOnWire
  /\ ret' = IF Stale(r) THEN Dropped ELSE NoRet
  /\ handleCommandResponse(r)
  /\ UNCHANGED <<openVars, optVars, conn, wg, done, msgs, msgsClosed,
                 sendLock, sinceSend, execVars, kaPc, closeVars, histVars>>

\* A queue that makes room by dropping its oldest message.
C10_DropOldest(q, m) ==
  IF Len(q) < msgBufSize THEN Append(q, m) ELSE Append(Tail(q), m)

\* The select of handleServerMessage: the message is sent on c.msgs when the
\* buffer has room, else the default case drops it.
Enqueue(q, m) == IF Len(q) < msgBufSize THEN Append(q, m) ELSE q

\* handleServerMessage, followed by the write of the acknowledgement, whose
\* error is ignored.
handleServerMessage(r) ==
  IF msgsClosed
    THEN /\ panicked' = "send on closed channel"
         /\ UNCHANGED <<msgs, acks, dropped, rcvPc>>
    ELSE /\ msgs' = Enqueue(msgs, r.msg)
         /\ dropped' = IF Len(msgs) < msgBufSize THEN dropped ELSE dropped + 1
         /\ acks' = Append(acks,
                      newServerMessageAcknowledgePacket(r.seq).sequenceNumber)
         /\ rcvPc' = "loop"
         /\ UNCHANGED panicked

\* read() gave a server broadcast: the server numbers its broadcasts.
ReceiverBroadcast ==
  /\ Running /\ ret' = NoRet /\ rcvPc = "read" /\ bcRead < MaxBroadcasts
  /\ handleServerMessage([seq |-> bcRead % ByteMod, msg |-> bcRead + 1])
  /\ bcRead' = bcRead + 1
  /\ UNCHANGED <<openVars, optVars, conn, wg, done, msgsClosed, ctr,
                 fragments, sendLock, sinceSend, rcvVal, errAt, execVars, kaPc,
                 closeVars, sent, nCalls, nKeepAlives, nReplied>>

\* The application reads a message from Messages().
ConsumeMessage ==
  /\ Running /\ ret' = NoRet /\ openRes = "client" /\ msgs # <<>>
  /\ msgs' = Tail(msgs)
  /\ UNCHANGED <<openVars, optVars, conn, wg, done, msgsClosed, ctr,
                 fragments, sendLock, sinceSend, rcvVars, execVars, kaPc,
                 closeVars, histVars, panicked>>

\* -------------------------------------------------------------- time
\* The times left until a pending timer of the program fires, or until a
\* keep-alive becomes due.
Deadlines ==
  (IF openPc = "wait" THEN {openTimer} ELSE {})
  \cup {execTimer[p] : p \in {q \in ExecProcs : execPc[q] = "wait"}}
  \cup (IF kaPc = "select" /\ sinceSend # Never
          THEN {keepAlive + 1 - sinceSend} ELSE {})

\* A clock that moves no timer.
C28_NoClock(x, d) == x

Less(x, d) == IF x > d THEN x - d ELSE 0

\* d seconds pass.
Tick(d) ==
  /\ Running /\ ret' = NoRet /\ d \in Deadlines /\ d > 0
  /\ openTimer' = Less(openTimer, d)
  /\ execTimer' = [p \in ExecProcs |-> Less(execTimer[p], d)]
  /\ execUntil' = [p \in ExecProcs |-> Less(execUntil[p], d)]
  /\ sinceSend' = IF sinceSend = Never THEN Never
                  ELSE IF sinceSend + d > keepAlive THEN keepAlive + 1
                  ELSE sinceSend + d
  /\ UNCHANGED <<openPc, openRes, openErr, pwdOk, codecVars, loginSent, optVars, conn,
                 wg, done, msgs, msgsClosed, ctr, fragments, sendLock,
                 rcvVars, execPc, execTx, kaPc, closeVars,
                 histVars, panicked>>

\* ------------------------------------------------------------- Next
OpenNext ==
  \/ \E opts \in OptionLists : NewClient(opts)
  \/ \E ok \in BOOLEAN : connectDial(ok)
  \/ \E ok \in BOOLEAN : connectLogin(ok)
  \/ connectTimeout
  \/ connectErr
  \/ connectLoginResult
  \/ NewClientFail

CloseNext(T) ==
  \/ \E t \in T : CloseCall(t)
  \/ \E t \in T : CloseDone(t)
  \/ \E t \in T : CloseWait(t)
  \/ \E t \in T : CloseMsgs(t)
  \/ \E t \in T : CloseConn(t)

ExecSteps(P) ==
  \/ \E p \in P, ok \in BOOLEAN : ExecLock(p, ok)
  \/ \E p \in P, ok \in BOOLEAN : ExecRetry(p, ok)
  \/ \E p \in P : ExecGiveUp(p)
  \/ \E p \in P : ExecRecvErr(p)
  \/ \E p \in P : ExecRecvCmd(p)

KeepAliveNext ==
  \/ KeepAliveTick
  \/ ExecSteps({KA})

ExecNext ==
  \/ \E p \in Callers : ExecCall(p)
  \/ ExecSteps(Callers)

ReceiverNext ==
  \/ ReceiverLoop
  \/ ReceiverTimeout
  \/ \E e \in ReadErrs : ReceiverError(e)
  \/ ReceiverLogin
  \/ \E r \in OnWire : ReceiverCommand(r)

TickNext == \E d \in Deadlines : Tick(d)

Next ==
  \/ OpenNext
  \/ CloseNext(CloseProcs)
  \/ ExecNext
  \/ KeepAliveNext
  \/ KeepAliveExit
  \/ ReceiverNext
  \/ ReceiverBroadcast
  \/ ConsumeMessage
  \/ TickNext

Spec == Init /\ [][Next]_vars

\* The command path: the client is opened, user goroutines and the
\* keep-alive task call Exec, the server answers; nobody closes an open
\* client and the server sends no broadcasts.
NextExec ==
  \/ OpenNext
  \/ CloseNext({"open"})
  \/ ExecNext
  \/ KeepAliveNext
  \/ ReceiverNext
  \/ TickNext

SpecExec == Init /\ [][NextExec]_vars

\* The life cycle: the client is opened, receives broadcasts, keeps the
\* connection alive and is closed by its users, who issue no commands.
NextLife ==
  \/ OpenNext
  \/ CloseNext(CloseProcs)
  \/ KeepAliveNext
  \/ KeepAliveExit
  \/ ReceiverNext
  \/ ReceiverBroadcast
  \/ ConsumeMessage
  \/ TickNext

SpecLife == Init /\ [][NextLife]_vars

\* The idle life cycle: the life cycle with no commands of the application,
\* long enough for the keep-alive goroutine to call Exec a second time, after
\* the interval has passed since its first command was sent.
NextIdle ==
  \/ OpenNext
  \/ CloseNext(CloseProcs)
  \/ keepConnectionAlive(MaxIdleKeepAlives)
  \/ ExecSteps({KA})
  \/ KeepAliveExit
  \/ ReceiverNext
  \/ ReceiverBroadcast
  \/ ConsumeMessage
  \/ TickNext

SpecIdle == Init /\ [][NextIdle]_vars

\* The fragment path on an opened client: one user goroutine calls Exec, the
\* keep-alive goroutine runs (MaxKeepAlives keep-alive commands), and the
\* server answers, fragments of every shape among its datagrams.  The client
\* is new, or it is one whose counter has gone round once: 256 commands have
\* been answered, the first of them, OldCmd, in MaxParts fragments.
OldCmd == MaxCalls + 1

OldEntry ==
  [expected |-> {}, parts |-> [i \in 1..MaxParts |-> << <<OldCmd, i>> >>]]

InitFrag ==
  /\ openPc = "returned" /\ openRes = "client" /\ openErr = "nil"
  /\ openTimer = 0 /\ pwdOk = TRUE /\ loginSent = TRUE
  /\ timeout = defaultTimeout /\ keepAlive = defaultKeepAlive
  /\ msgBufSize = defaultMessageBufferSize
  /\ conn = "open" /\ wg = 2 /\ done = FALSE
  /\ msgs = <<>> /\ msgsClosed = FALSE
  /\ \/ ctr = 0 /\ fragments = [s \in {} |-> NoVal] /\ sinceSend = Never
     \/ ctr = ByteMod /\ fragments = (0 :> OldEntry) /\ sinceSend = 0
  /\ sendLock = Unlocked
  /\ rcvPc = "loop" /\ rcvVal = NoVal /\ errAt = NoAt
  /\ execPc = [p \in ExecProcs |-> "idle"]
  /\ execUntil = [p \in ExecProcs |-> 0]
  /\ execTimer = [p \in ExecProcs |-> 0]
  /\ execTx = [p \in ExecProcs |-> 0]
  /\ kaPc = "select"
  /\ closePc = [t \in CloseProcs |-> "idle"]
  /\ closeRes = [t \in CloseProcs |-> "none"]
  /\ closeLate = [t \in CloseProcs |-> FALSE]
  /\ sent = {} /\ acks = <<>> /\ bcRead = 0 /\ dropped = 0
  /\ nCalls = 0 /\ nKeepAlives = 0 /\ nReplied = ctr /\ ret = NoRet
  /\ panicked = "none"
  /\ pkt = NoPacket /\ raw = NoRaw /\ parsed = NoResult

FragCallers == {1}

NextFrag ==
  \/ \E p \in FragCallers : ExecCall(p)
  \/ ExecSteps(FragCallers)
  \/ KeepAliveNext
  \/ ReceiverNext
  \/ \E r \in OddOnWire : ReceiverOdd(r)
  \/ TickNext

SpecFrag == InitFrag /\ [][NextFrag]_vars

\* The shutdown path on an opened, new client: one user goroutine calls
\* Exec, the keep-alive goroutine runs, the server answers, and another user
\* goroutine calls Close at any moment.
InitShut == InitFrag /\ ctr = 0

ShutCallers == {1}

NextShut ==
  \/ \E p \in ShutCallers : ExecCall(p)
  \/ ExecSteps(ShutCallers)
  \/ CloseNext({"u1"})
  \/ KeepAliveNext
  \/ KeepAliveExit
  \/ ReceiverNext
  \/ TickNext

SpecShut == InitShut /\ [][NextShut]_vars

\* ------------------------------------------------------------- codec
\* The codec on its own: a packet is encoded or a datagram arrives from the
\* server, bytes of it may be changed or cut off on the way, and it is decoded.
clientVars ==
  <<openPc, openRes, openErr, openTimer, pwdOk, loginSent, optVars, conn, wg,
    done, msgs, msgsClosed, ctr, fragments, sendLock, sinceSend, rcvVars,
    execVars, kaPc, closeVars, histVars, ret, panicked>>

\* The bytes of passwords and command texts, and the texts made of them.
TextBytes == {0, 1, 65}
RECURSIVE TextsUpTo(_)
TextsUpTo(n) ==
  IF n = 0 THEN {<<>>}
  ELSE TextsUpTo(n - 1)
       \cup {Append(t, b) : t \in TextsUpTo(n - 1), b \in TextBytes}
Texts == TextsUpTo(MaxText)
SeqBytes == {0, 2, 255}

\* The packets the client makes, and one with a payload type it does not know.
Packets ==
  {newLoginPacket(t) : t \in Texts}
  \cup {newCommandPacket(t, sq) : t \in Texts, sq \in SeqBytes}
  \cup {newServerMessageAcknowledgePacket(sq) : sq \in SeqBytes}
  \cup {[payloadType |-> 5, sequenceNumber |-> 0, message |-> <<>>]}

\* The payloads the server sends: login answers, command replies whole and
\* in parts (with multi-part headers cut short among them), broadcasts, and
\* a payload of a type the client does not know.
ServerPayloads ==
  {<<255, loginType, b>> : b \in {loginFailed, loginSuccess, 2}}
  \cup {<<255, commandType, 2>> \o t :
          t \in {<<>>, <<65>>, <<multiPacketType>>, <<multiPacketType, 2>>,
                 <<multiPacketType, 2, 1>>, <<multiPacketType, 2, 0, 65>>}}
  \cup {<<255, serverMessageType, 2>> \o t : t \in {<<>>, <<65, 1>>}}
  \cup {<<255, 3, 0>>, <<255, 3>>}

\* The datagram the server makes of a payload.
Datagram(pl) == header(pl) \o pl

\* The changes a datagram can suffer: it is cut to n bytes, or the byte at
\* offset i is replaced.
Damages ==
  {[cut |-> TRUE, at |-> n, to |-> 0] : n \in {0, 8}}
  \cup {[cut |-> FALSE, at |-> i, to |-> v] : i \in {0, 2, 6, 7}, v \in {0, 3}}

Damaged(b, d) ==
  IF d.cut THEN (IF d.at < Len(b) THEN SubSeq(b, 1, d.at) ELSE b)
  ELSE IF d.at < Len(b) THEN [b EXCEPT ![d.at + 1] = d.to]
  ELSE b

InitCodec ==
  /\ InitClient
  /\ pkt \in Packets \cup {NoPacket} /\ raw = NoRaw /\ parsed = NoResult

Encode ==
  /\ pkt # NoPacket /\ raw = NoRaw
  /\ raw' = [err |-> bytes(pkt).err, bytes |-> bytes(pkt).bytes, hits |-> 0]
  /\ UNCHANGED <<clientVars, pkt, parsed>>

Arrive(pl) ==
  /\ pkt = NoPacket /\ raw = NoRaw
  /\ raw' = [err |-> "nil", bytes |-> Datagram(pl), hits |-> 0]
  /\ UNCHANGED <<clientVars, pkt, parsed>>

Damage(d) ==
  /\ raw.err = "nil" /\ parsed = NoResult /\ raw.hits < MaxDamage
  /\ Damaged(raw.bytes, d) # raw.bytes
  /\ raw' = [raw EXCEPT !.bytes = Damaged(@, d), !.hits = @ + 1]
  /\ UNCHANGED <<clientVars, pkt, parsed>>

Decode ==
  /\ raw.err = "nil" /\ parsed = NoResult
  /\ parsed' = parseResponse(raw.bytes)
  /\ UNCHANGED <<clientVars, pkt, raw>>

NextCodec ==
  \/ Encode
  \/ \E pl \in ServerPayloads : Arrive(pl)
  \/ \E d \in Damages : Damage(d)
  \/ Decode

SpecCodec == InitCodec /\ [][NextCodec]_vars

\* ============================================================ properties
\* The Exec call that returned in the last step returned a reply.
Replied == ret.err = "nil"

\* C1: the body an Exec call returns is the reply the server produced for
\* that call's own command, never the reply to another call's command.
C1_OwnReply == Replied => ret.resp = Body(ret.proc)

\* C2: what the receiver publishes on c.cmds is the whole body of one reply
\* carrying the expected sequence byte: the fragments of that one reply,
\* all of them, joined in the order of their indices.
C2_WholeReply ==
  rcvPc = "cmds" => \E p \in sent : p.seq = (ctr - 1) % ByteMod /\ rcvVal = Body(p.cmd)

\* C3: while no Exec call is in progress, the counter is the number of Exec
\* calls that returned a reply, modulo 256.
C3_CounterCountsReplies ==
  (\A p \in ExecProcs : execPc[p] = "idle") => seq = nReplied % ByteMod

\* The Exec calls that have transmitted their command and not yet returned.
Outstanding == {p \in ExecProcs : execPc[p] = "wait"}

\* Goroutine q writes a command packet in this step.
Transmits(q) == execTx'[q] = execTx[q] + 1

\* C4: at most one command exchange is outstanding at any instant, and
\* between an Exec call's first transmission and its return no other Exec
\* call transmits a command packet.
C4_Serialized ==
  /\ [](Cardinality(Outstanding) <= 1)
  /\ [][\A p \in Outstanding : \A q \in ExecProcs \ {p} : ~Transmits(q)]_vars

\* An Exec call has transmitted and waits for its reply while another one has
\* been called and waits for the lock.
C4_Witness ==
  \E p \in Outstanding : \E q \in ExecProcs \ {p} :
    execPc[q] = "lock" /\ sendLock = p

\* The steps the program takes by itself once it can: a Close call under way
\* goes on, the receiver comes back from a read when the socket deadline
\* passes and looks at done at the top of its loop, the keep-alive goroutine
\* takes the done case of its select, calls Exec on a tick with a keep-alive
\* due and goes on inside Exec, NewClient goes on, and time passes.  Calls by the application and datagrams from the
\* server are not forced.
Fairness ==
  /\ \A t \in CloseProcs :
       WF_vars(CloseDone(t) \/ CloseWait(t) \/ CloseMsgs(t) \/ CloseConn(t))
  /\ WF_vars(ReceiverLoop)
  /\ WF_vars(ReceiverTimeout)
  /\ WF_vars(KeepAliveExit)
  /\ WF_vars(KeepAliveTick)
  /\ WF_vars(ExecSteps({KA}))
  /\ WF_vars(connectTimeout \/ connectErr \/ connectLoginResult \/ NewClientFail)
  /\ WF_vars(TickNext)

FairLife == SpecLife /\ Fairness

\* C5: a Close call by the application that has set the done signal
\* returns eventually, with the receiver and the keep-alive goroutine exited
\* (unless the process has panicked).
C5_CloseReturns ==
  \A t \in Closers :
    (closePc[t] = "Wait") ~>
      \/ closePc[t] = "returned" /\ rcvPc = "exited" /\ kaPc = "exited"
      \/ ~Running

\* Thread t begins a Close call in this step, after a Close call has returned.
LateCloseCall(t) ==
  /\ closePc[t] = "idle" /\ closePc'[t] # "idle"
  /\ \E u \in CloseProcs : closePc[u] = "returned"

\* C6: a Close call made after an earlier Close call has returned returns
\* nil at once, does not panic, and leaves the done signal, the goroutines,
\* the broadcast queue and the socket as they are.
C6_Idempotent ==
  /\ [](\A t \in CloseProcs :
          closeLate[t] => closePc[t] = "returned" /\ closeRes[t] = "nil")
  /\ [][\A t \in CloseProcs :
          LateCloseCall(t) =>
            /\ closePc'[t] = "returned" /\ closeRes'[t] = "nil"
            /\ UNCHANGED <<done, wg, rcvPc, kaPc, msgs, msgsClosed, conn,
                           panicked>>]_vars

\* A Close call made on a closed client has returned.
C6_Witness ==
  \E t \in Closers :
    /\ closeLate[t] /\ closePc[t] = "returned"
    /\ msgsClosed /\ conn = "closed" /\ Running

\* C7: while NewClient tears down the client whose connect failed, nothing
\* panics.
C7_TeardownNoPanic == openPc = "close" => Running

\* connect's select receives a login outcome in this step.
LoginReceived == openPc = "wait" /\ rcvPc = "login" /\ rcvPc' # "login"

\* C8: NewClient returns a client exactly when connect's select receives a
\* login outcome of success; a server answer of 0x00 never gives a client and,
\* when received, gives ErrLoginFailed; the keep-alive goroutine is started
\* by a received success only and is never there when NewClient failed.
C8_Open ==
  /\ [](/\ openRes = "client" => pwdOk
        /\ openRes = "ErrLoginFailed" => ~pwdOk
        /\ kaPc # "off" => openRes = "client")
  /\ [][/\ (openRes # "client" /\ openRes' = "client") => (LoginReceived /\ rcvVal)
        /\ (kaPc = "off" /\ kaPc' # "off") => (LoginReceived /\ rcvVal)
        /\ (LoginReceived /\ rcvVal) => (openRes' = "client" /\ kaPc' = "select")
        /\ (LoginReceived /\ ~rcvVal) =>
             (openErr' = "ErrLoginFailed" /\ openPc' = "close" /\ kaPc' = "off")
        /\ (openPc = "close" /\ openPc' = "returned") => openRes' = openErr]_vars

\* The server answered the login with 0x00 and NewClient returned
\* ErrLoginFailed.
C8_Witness == ~pwdOk /\ openRes = "ErrLoginFailed" /\ kaPc = "off"

\* Exec call p returns err in this step.
Returns(p, err) == ret'.proc = p /\ ret'.err = err

\* C9: a call waiting for its reply transmits again only when its timer has
\* fired inside the window; it returns ErrTimeout only when the timer has
\* fired with the window elapsed, and then done, the queue and the socket are
\* left as they are; any other error is returned without a further
\* transmission, and an error taken from c.errs is the one returned.
C9_RetryWindow ==
  [][\A p \in Outstanding :
       /\ Transmits(p) => (execTimer[p] = 0 /\ execUntil[p] > 0)
       /\ Returns(p, "ErrTimeout") =>
            /\ execTimer[p] = 0 /\ execUntil[p] = 0
            /\ UNCHANGED <<sent, done, msgsClosed, conn>>
       /\ (ret'.proc = p /\ ret'.err \notin {"nil", "ErrTimeout"}) =>
            /\ ret'.tx = execTx[p] /\ sent' = sent
            /\ rcvPc = "errs" /\ rcvPc' # "errs" => ret'.err = rcvVal]_vars

\* An Exec call has returned ErrTimeout after transmitting its command more
\* than once, and the client is open.
C9_Witness ==
  /\ ret.err = "ErrTimeout" /\ ret.tx >= 2 /\ ret.left = 0
  /\ conn = "open" /\ ~done

\* A broadcast is read from the socket in this step.
BroadcastRead == bcRead' = bcRead + 1

\* C10: a broadcast read while the queue is full is dropped and the queue
\* stays as it is, one read while there is room is appended at the tail, the
\* receiver goes on to its next read either way, and the queue holds its
\* messages in the order they were read.
C10_DropNewest ==
  /\ [](\A i, j \in 1..Len(msgs) : i < j => msgs[i] < msgs[j])
  /\ [][BroadcastRead =>
          /\ rcvPc' = "loop"
          /\ msgs' = IF Len(msgs) = msgBufSize
                        THEN msgs ELSE Append(msgs, bcRead + 1)]_vars

\* A broadcast has been dropped and the queue still holds its full capacity
\* of older messages.
C10_Witness ==
  /\ dropped > 0 /\ Len(msgs) = msgBufSize /\ Len(msgs) >= 2
  /\ msgs[1] < bcRead

\* The keep-alive goroutine calls Exec("") in this step.
KeepAliveCalls == kaPc = "select" /\ kaPc' = "exec"

\* The time since the last recorded transmission exceeds the interval.
IntervalExceeded == sinceSend = Never \/ sinceSend > keepAlive

FairIdle ==
  SpecIdle /\ Fairness /\ WF_vars(keepConnectionAlive(MaxIdleKeepAlives))

\* C11: the keep-alive goroutine calls Exec("") only when the time since the
\* last recorded transmission exceeds the keep-alive interval (or nothing has
\* been sent yet), and with no caller activity the first transmission of
\* each call is made with no command sent within the interval; an open
\* client at its select gets Exec("") called once the interval has passed,
\* the first time and again after the interval has passed since the
\* keep-alive command before, and the call gets to its transmission (or its
\* write error), unless the client is closed or the process panics first.
C11_KeepAlive ==
  /\ [][/\ KeepAliveCalls => IntervalExceeded
        /\ (execTx[KA] = 0 /\ Transmits(KA)) =>
             (IntervalExceeded /\ [seq |-> seq, cmd |-> KA] \in sent')]_vars
  /\ \A n \in 0..(MaxIdleKeepAlives - 1) :
       (openRes = "client" /\ kaPc = "select" /\ nKeepAlives = n) ~>
         (nKeepAlives > n \/ done \/ ~Running)
  /\ (execPc[KA] = "lock") ~> (execPc[KA] # "lock" \/ ~Running)

\* The keep-alive goroutine has transmitted its second empty command, the
\* interval having passed since the first, and waits for the reply.
C11_Witness ==
  /\ nKeepAlives = 2 /\ kaPc = "exec" /\ execPc[KA] = "wait" /\ execTx[KA] = 1
  /\ sinceSend = 0 /\ Cardinality({p \in sent : p.cmd = KA}) >= 1

\* ------------------------------------------------------------ codec claims
\* An encoded packet has been decoded as it was written.
Trip == pkt # NoPacket /\ raw.err = "nil" /\ raw.hits = 0 /\ parsed # NoResult

\* The payload type of a decoded value.
TypeOf(res) ==
  CASE res.kind = "login" -> loginType
    [] res.kind = "command" -> commandType
    [] res.kind = "serverMessage" -> serverMessageType
    [] OTHER -> -1

\* The decoded value has the payload type, sequence byte and body of p.
SameAs(res, p) ==
  /\ res.err = "nil" /\ ~res.multi
  /\ TypeOf(res) = p.payloadType
  /\ res.seq = p.sequenceNumber
  /\ res.msg = p.message

\* C12 as stated: decoding the bytes of any encoded packet succeeds and
\* yields the payload type, sequence byte and body of the packet.
C12_RoundTrip == Trip => SameAs(parsed, pkt)

\* A command text that the decoder reads as the header of a multi-part reply.
MultiLike(m) == Len(m) > 0 /\ m[1] = multiPacketType

\* C12: decoding the bytes of an encoded packet yields its payload type,
\* sequence byte and body for a server-message acknowledgement and for a
\* command whose text does not begin with the multi-part tag 0x00.  A command
\* text of three bytes or more that begins with 0x00 is read as a fragment of
\* a multi-part reply: its second and third bytes are the part count and the
\* part index, and the body is what follows them.  A login packet with a
\* password of one byte or more is read as a login answer: it never decodes
\* to the password; a first byte 0x00 or 0x01 gives the login result failed
\* or successful and no body, any other first byte gives
\* ErrInvalidLoginResponse.
C12_RoundTripCommands ==
  Trip =>
    CASE pkt.payloadType = serverMessageType -> SameAs(parsed, pkt)
      [] pkt.payloadType = commandType /\ ~MultiLike(pkt.message) ->
           SameAs(parsed, pkt)
      [] pkt.payloadType = commandType /\ MultiLike(pkt.message)
           /\ Len(pkt.message) >= 3 ->
           /\ parsed.err = "nil" /\ parsed.kind = "command" /\ parsed.multi
           /\ parsed.seq = pkt.sequenceNumber
           /\ parsed.multiSize = pkt.message[2]
           /\ parsed.multiIndex = pkt.message[3]
           /\ parsed.msg = From(pkt.message, 3)
           /\ ~SameAs(parsed, pkt)
      [] pkt.payloadType = loginType /\ Len(pkt.message) >= 1 ->
           /\ ~SameAs(parsed, pkt)
           /\ IF pkt.message[1] \in {loginFailed, loginSuccess}
                THEN /\ parsed.err = "nil" /\ parsed.kind = "login"
                     /\ parsed.ok = (pkt.message[1] = loginSuccess)
                     /\ parsed.msg = <<>>
                ELSE parsed.err = "ErrInvalidLoginResponse"
      [] OTHER -> TRUE

\* A command whose text of four bytes begins with 0x00 has made the trip and
\* come back as fragment 1 of 65 with the last byte as its body.
C12_Witness ==
  /\ Trip /\ pkt = newCommandPacket(<<0, 65, 1, 65>>, 255)
  /\ parsed.err = "nil" /\ parsed.multi /\ parsed.seq = 255
  /\ parsed.multiSize = 65 /\ parsed.multiIndex = 1 /\ parsed.msg = <<65>>

\* The five checks of the decoder, each on its own.
SizeBad(b) == Len(b) < minPacketSize
HeaderBad(b) == ~(Len(b) >= 2 /\ b[1] = 66 /\ b[2] = 69)
EndBad(b) == ~(Len(b) >= 7 /\ b[7] = 255)
SumBad(b) ==
  ~(Len(b) >= 6 /\ <<b[3], b[4], b[5], b[6]>> = ChecksumIEEE(From(b, 6)))
TypeBad(b) ==
  ~(Len(b) >= 8 /\ b[8] \in {loginType, commandType, serverMessageType})

\* The error of the first check that fails, in the order size, header, end
\* of header, checksum, payload type; "nil" when every check passes.
FirstFailure(b) ==
  IF SizeBad(b) THEN "ErrInvalidPacketSize"
  ELSE IF HeaderBad(b) THEN "ErrInvalidHeader"
  ELSE IF EndBad(b) THEN "ErrInvalidEndOfHeader"
  ELSE IF SumBad(b) THEN "ErrInvalidChecksum"
  ELSE IF TypeBad(b) THEN "ErrUnknownPacketType"
  ELSE "nil"

CheckErrors ==
  {"ErrInvalidPacketSize", "ErrInvalidHeader", "ErrInvalidEndOfHeader",
   "ErrInvalidChecksum", "ErrUnknownPacketType"}

\* C13: the error the decoder returns for a datagram is that of the first
\* failing check in the order size, header bytes, end-of-header byte,
\* checksum, payload type, also when several checks fail; a datagram that
\* passes the five checks gets none of their errors.
C13_FirstFailure ==
  parsed # NoResult =>
    IF FirstFailure(raw.bytes) # "nil"
      THEN parsed.err = FirstFailure(raw.bytes)
      ELSE parsed.err \notin CheckErrors

\* A datagram of full size whose header bytes, checksum and payload type are
\* all wrong has been decoded to InvalidHeader.
C13_Witness ==
  /\ parsed.err = "ErrInvalidHeader"
  /\ ~SizeBad(raw.bytes) /\ HeaderBad(raw.bytes)
  /\ SumBad(raw.bytes) /\ TypeBad(raw.bytes)

\* A packet has been encoded and its bytes are as written.
Encoded == pkt # NoPacket /\ raw # NoRaw /\ raw.hits = 0

\* C20: every packet of a known payload type is encoded without error to at
\* least minPacketSize bytes that begin with 0x42 0x45, have 0xFF at offset
\* 6 and carry the checksum of the payload, so that it passes every check of
\* the decoder; a packet of an unknown payload type is not encoded, the
\* error is UnknownPacketType.
C20_EncodedValid ==
  Encoded =>
    IF pkt.payloadType \in {loginType, commandType, serverMessageType}
      THEN /\ raw.err = "nil"
           /\ Len(raw.bytes) >= minPacketSize
           /\ ~HeaderBad(raw.bytes) /\ ~EndBad(raw.bytes) /\ ~SumBad(raw.bytes)
           /\ FirstFailure(raw.bytes) = "nil"
      ELSE raw.err = "ErrUnknownPacketType" /\ raw.bytes = <<>>

\* ----------------------------------------------------- configuration
\* The first option of the list that NewClient refuses, 0 when none.
FirstRefused(opts) ==
  LET bad == {i \in 1..Len(opts) :
                \/ opts[i] = NilOption
                \/ opts[i].kind = "MessageBuffer" /\ opts[i].v < 1}
  IN IF bad = {} THEN 0 ELSE CHOOSE i \in bad : \A j \in bad : i <= j

\* C14: NewClient with a MessageBuffer option of a size below 1 returns
\* InvalidMessageBufferSize and with a nil option NilOption (the first such
\* option of the list decides); no client is returned, no socket opened, no
\* goroutine started and no packet written, then or later.
C14_BadOptions ==
  /\ [][\A opts \in OptionLists :
          (NewClient(opts) /\ FirstRefused(opts) > 0) =>
            /\ openPc' = "returned"
            /\ openRes' = IF opts[FirstRefused(opts)] = NilOption
                             THEN "ErrNilOption"
                             ELSE "ErrInvalidMessageBufferSize"]_vars
  /\ [](openRes \in {"ErrNilOption", "ErrInvalidMessageBufferSize"} =>
          /\ openPc = "returned"
          /\ conn = "nil" /\ wg = 0 /\ rcvPc = "off" /\ kaPc = "off"
          /\ ~loginSent /\ sent = {} /\ acks = <<>>)

\* NewClient has returned InvalidMessageBufferSize.
C14_Witness ==
  /\ openPc = "returned" /\ openRes = "ErrInvalidMessageBufferSize"
  /\ conn = "nil" /\ wg = 0

\* ------------------------------------------------- command responses
\* C15: a command response whose sequence byte differs from the counter's is
\* dropped: the counter, the fragment map and the value on the reply channel
\* stay as they are, the receiver goes on to its next read and offers
\* nothing to an Exec call.
C15_StaleDropped ==
  [][rcvPc = "read" =>
       \A r \in {x \in OnWire : x.seq # ctr % ByteMod} :
         ReceiverCommand(r) =>
           /\ UNCHANGED <<ctr, fragments, rcvVal, nReplied>>
           /\ rcvPc' = "loop"
           /\ ret' = Dropped]_vars

\* The receiver has dropped a response while an Exec call waits for the
\* reply to a later command.
C15_Witness ==
  /\ ret = Dropped /\ rcvPc = "loop" /\ ctr > 0
  /\ \E p \in Callers : execPc[p] = "wait"

\* The receiver takes fragment r of a multi-part reply in this step: r has
\* the sequence byte of the counter and is added to the entry of that byte.
TakesFragment(r) ==
  /\ ReceiverCommand(r) /\ r.multi /\ r.seq = ctr % ByteMod
  /\ r.seq \in DOMAIN fragments'

\* The indices an entry misses.
Missing(s) == fragments[s].expected

\* C16: the indices an entry misses are among those of its parts, so their
\* number is between 0 and the number of parts; no step adds to them; a
\* fragment takes its own index from them and writes its slot, and a
\* duplicate writes its slot and leaves them as they are; the reassembled
\* reply is published in the step after which no index is missing, and in no
\* other step that takes a fragment.
C16_Missing ==
  /\ [](\A s \in DOMAIN fragments :
          /\ Missing(s) \subseteq 0..(Len(fragments[s].parts) - 1)
          /\ Cardinality(Missing(s)) <= Len(fragments[s].parts))
  /\ [][\A s \in DOMAIN fragments :
          /\ s \in DOMAIN fragments'
          /\ fragments'[s].expected \subseteq Missing(s)
          /\ Len(fragments'[s].parts) = Len(fragments[s].parts)]_vars
  /\ [][rcvPc = "read" =>
          \A r \in {x \in OnWire : x.multi} :
            TakesFragment(r) =>
              /\ fragments'[r.seq].parts[r.multiIndex + 1] = r.msg
              /\ r.multiIndex \notin fragments'[r.seq].expected
              /\ r.seq \in DOMAIN fragments =>
                   /\ fragments'[r.seq].expected = Missing(r.seq) \ {r.multiIndex}
                   /\ \A i \in 1..Len(fragments[r.seq].parts) :
                        i # r.multiIndex + 1 =>
                          fragments'[r.seq].parts[i] = fragments[r.seq].parts[i]
              /\ (rcvPc' = "cmds") <=> (fragments'[r.seq].expected = {})
              /\ rcvPc' = "cmds" => rcvVal' = Join(fragments'[r.seq].parts)]_vars

\* The last missing fragment of a reply in MaxParts parts has arrived and
\* the reassembled reply is on its way to the Exec call.
C16_Witness ==
  /\ rcvPc = "cmds"
  /\ \E s \in DOMAIN fragments :
       /\ Missing(s) = {} /\ Len(fragments[s].parts) = MaxParts
       /\ rcvVal = Join(fragments[s].parts) /\ Len(rcvVal) = MaxParts

\* C17: the fragment map holds at most one entry, and an entry whose parts
\* have all arrived is there only while its reassembled reply is on its way
\* to the Exec call: it is released with the delivery.
C17_Released ==
  /\ Cardinality(DOMAIN fragments) <= 1
  /\ \A s \in DOMAIN fragments : Missing(s) = {} => rcvPc = "cmds"

\* --------------------------------------------------------- broadcasts
\* C18: the receiver answers every broadcast it reads with one
\* acknowledgement that carries the sequence byte of that broadcast, whether
\* the message was queued or dropped, and acknowledges nothing else; the
\* step leaves the counter, the fragment map and the value on the reply
\* channel as they are.
C18_AckEveryBroadcast ==
  /\ [](Len(acks) = bcRead)
  /\ [][/\ BroadcastRead =>
             /\ acks' = Append(acks, bcRead % ByteMod)
             /\ UNCHANGED <<ctr, fragments, rcvVal, nReplied>>
             /\ rcvPc' # "cmds"
        /\ acks' # acks => BroadcastRead]_vars

\* The last of MaxBroadcasts broadcasts was dropped at a full queue and
\* acknowledged with its sequence byte, after one that was queued.
C18_Witness ==
  /\ bcRead = MaxBroadcasts /\ dropped > 0 /\ Len(msgs) = msgBufSize
  /\ msgs[Len(msgs)] < bcRead
  /\ acks = [i \in 1..MaxBroadcasts |-> i - 1]

\* ------------------------------------------------------------- errors
\* Exec call p had begun when the receiver got the error it now holds.
PendingAtError(p) ==
  IF p = KA THEN nKeepAlives <= errAt.kas ELSE p <= errAt.calls

\* C19: an error that an Exec call returns from the error channel is one the
\* receiver got while that call was pending; an error the receiver got
\* before the call began is not returned by it.
C19_NoStaleError ==
  [][\A p \in ExecProcs : ExecRecvErr(p) => PendingAtError(p)]_vars

\* --------------------------------------------------- retransmission
\* C21: the command packets one Exec call writes, the first and every one
\* written again after a timeout, carry one sequence byte.  (Every
\* application goroutine makes one call, with a command of its own.)
C21_OneSequence ==
  \A a, b \in sent : (a.cmd \in Callers /\ a.cmd = b.cmd) => a.seq = b.seq

\* ------------------------------------------------- concurrent Close
\* C24: with Close calls running concurrently on an opened client, the
\* broadcast queue and the socket are closed once each and no call panics:
\* no Close call closes the queue when it is closed, and none finds the
\* socket closed.
C24_ClosedOnce ==
  /\ panicked # "close of closed channel"
  /\ \A t \in Closers : closeRes[t] # "closed"

\* ------------------------------------------------------ decoder bounds
\* The errors the decoder returns.
DecodeErrors == CheckErrors \cup {"ErrInvalidLoginResponse"}

\* C25: for a datagram of at least minPacketSize bytes with the header
\* bytes, the end-of-header byte and the checksum in order, the decoder
\* returns a value or one of its errors: it does not read past the end of the
\* datagram.
C25_NoOverread ==
  (/\ parsed # NoResult
   /\ ~SizeBad(raw.bytes) /\ ~HeaderBad(raw.bytes)
   /\ ~EndBad(raw.bytes) /\ ~SumBad(raw.bytes)) =>
    parsed.err \in {"nil"} \cup DecodeErrors

\* ------------------------------------------------------ the done signal
\* The Close calls that have called done.Done and come back from it.
AfterDone == {t \in CloseProcs : closePc[t] \in {"Wait", "msgs", "conn"}}

\* C29: IsDone is false until the first call of Done has been made and true
\* from then on; Done calls, one after another or at the same time, close
\* the channel once and none panics; the keep-alive goroutine, which waits on the
\* channel in its select, is released once Done has been called.
C29_DoneSignal ==
  /\ [](~IsDone => \A t \in CloseProcs : closePc[t] \in {"idle", "Done"})
  /\ [](AfterDone # {} => IsDone)
  /\ [][IsDone => IsDone']_vars
  /\ [][\A t \in CloseProcs : CloseDone(t) => (IsDone' /\ Running')]_vars
  /\ [](panicked # "close of closed channel d.ch")
  /\ (IsDone /\ kaPc = "select") ~> (kaPc = "exited" \/ ~Running)

\* Two Close calls have both called Done and wait for the goroutines, and
\* the keep-alive goroutine has left its select.
C29_Witness ==
  /\ closePc["u1"] = "Wait" /\ closePc["u2"] = "Wait"
  /\ IsDone /\ Running /\ kaPc = "exited"

\* ------------------------------------------------- the queue at Close
\* C27: when Close closes the broadcast queue the receiver goroutine has
\* exited (or was never started), so that no broadcast is read, and none
\* sent on the queue, once it is closed.
C27_ReceiverGone ==
  /\ [](msgsClosed => rcvPc \in {"off", "exited"})
  /\ [](panicked # "send on closed channel")
  /\ [][BroadcastRead => (~msgsClosed /\ ~msgsClosed')]_vars
  /\ [][msgsClosed => msgs' = msgs \/ msgs' = Tail(msgs)]_vars

\* Close has closed the queue of an opened client that had read broadcasts,
\* and the receiver goroutine has exited.
C27_Witness ==
  /\ msgsClosed /\ rcvPc = "exited" /\ openRes = "client"
  /\ bcRead > 0 /\ Running

\* ------------------------------------------------ the receiver goes on
\* The receiver is sending on c.login, c.cmds or c.errs.
ReceiverSending == rcvPc \in {"login", "cmds", "errs"}

\* C23: while the client is open the receiver does not block for ever: from
\* a send on one of its channels it comes back to its loop and reads the
\* socket again (unless the client is closed or the process panics first).
C23_ReceiverGoesOn ==
  (ReceiverSending /\ openRes = "client") ~>
    (rcvPc \in {"loop", "read"} \/ done \/ ~Running)

\* ------------------------------------------------- fragments, again
\* C26: storing a fragment stays within the slots of its entry: no fragment
\* that carries the expected sequence byte, whatever its part count and part
\* index, crashes the receiver.
C26_InsideSlots == panicked # "index out of range"

\* C22: after the counter has gone round, the reply the receiver publishes
\* holds no fragment text of the earlier exchange that used the sequence
\* byte.
C22_OwnFragments ==
  rcvPc = "cmds" => \A i \in 1..Len(rcvVal) : rcvVal[i][1] # OldCmd

\* A goroutine inside Exec goes on when it can: it gets the lock once the
\* holder has released it, and takes the case of its select that is ready.
FairShut ==
  SpecShut /\ Fairness /\ \A p \in ShutCallers : WF_vars(ExecSteps({p}))

\* C28: an Exec call of the application that is under way once Close has
\* been called -- in flight when Close runs, or made after Close has
\* returned -- returns eventually, with a reply or an error.
C28_ExecReturns ==
  \A p \in ShutCallers :
    (execPc[p] # "idle" /\ closePc["u1"] # "idle") ~> (execPc[p] = "idle")

\* An Exec call that had sent its command before the socket was closed has
\* returned the write error of its next transmission, after Close returned.
C28_Witness ==
  /\ closePc["u1"] = "returned" /\ conn = "closed"
  /\ ret.proc \in ShutCallers /\ ret.err = "io" /\ ret.tx >= 1
====
